---- MODULE Spec2Model ----
(***************************************************************************)
(* Model of the authentication bridge of the OFW client:                   *)
(*   - the token cache of OFWMessagesClient (ofw_messages_client.py),      *)
(*   - the validity probe and the client's authentication state,           *)
(*   - create_with_auto_auth and the OFWBrowserClient.login it drives.     *)
(*                                                                         *)
(* Strings are sequences of one-character symbols.  The symbols of the     *)
(* cache file are                                                          *)
(*   "{" "}" "[" "]"   JSON punctuation                                    *)
(*   "q"               the double quote                                    *)
(*   "b"               the backslash                                       *)
(*   "a"               an ordinary character                               *)
(*   "w"               whitespace (the newline and indent of indent=2)     *)
(*   "K"               the member name "token" with its colon              *)
(*   "O"               any other member name with its colon                *)
(*   "n"               the literal null                                    *)
(*   "5"               a number literal                                    *)
(***************************************************************************)
EXTENDS Integers, Sequences, FiniteSets, TLC

VARIABLES
    cache,              \* the token cache file: [state, content]
    ops,                \* the last three operations on the cache, oldest first
    saved,              \* argument of the last completed _save_token_to_cache
    ret,                \* value returned by _load_token_from_cache, when it was the last operation
    raised,             \* that _load_token_from_cache let an exception escape
    shrunk,             \* the last completed save replaced a longer content
    cut                 \* the last interrupted save: [old, new]

cacheVars == <<cache, ops, saved, ret, raised, shrunk, cut>>

VARIABLES
    is_authenticated,   \* OFWMessagesClient.is_authenticated
    auth_token,         \* OFWMessagesClient.auth_token
    authorization,      \* the token of the session's Authorization: Bearer header
    call                \* the last call on the client: [op, token, resp, result]

clientVars == <<is_authenticated, auth_token, authorization, call>>

VARIABLES
    pc,                 \* where create_with_auto_auth (and the login it drives) stands
    calls,              \* create_with_auto_auth calls started so far
    prev,               \* how the previous create_with_auto_auth call ended
    driver,             \* OFWBrowserClient.driver: "none" or "live"
    browser_auth,       \* OFWBrowserClient.is_authenticated
    submitted,          \* the form step of login (see NoForm)
    elapsed,            \* time.time() - start_time at the top of the poll loop, in ticks
    login_successful,   \* the local login_successful of login
    poll_end,           \* how the poll loop ended: "none", "markers", "error", "timeout"
    seen,               \* what the polls of this login saw (see NothingSeen)
    login_calls,        \* OFWBrowserClient.login calls made by the current call
    drivers_created,    \* Chrome drivers created by the current call
    cache_probe,        \* the answer to the probe of the cached token, if one was made
    saved_in_call,      \* the tokens given to _save_token_to_cache by the current call
    cache_at_start,     \* the cache file when the current call started
    new_token,          \* the token taken from localstorage.json by the current call
    escaped,            \* the exception that left create_with_auto_auth
    folders             \* the last get_folders on the returned client: [called, resp, ok]

authVars == <<pc, calls, prev, driver, browser_auth, submitted, elapsed,
              login_successful, poll_end, seen, login_calls, drivers_created, cache_probe,
              saved_in_call, cache_at_start, new_token, escaped, folders>>

VARIABLES
    api_pc,             \* the API call on the client: "idle", "paging", "returned", "raised"
    api,                \* that call: [op, folder_given, max_pages, last_page, authenticated]
    page,               \* the local page of get_all_messages
    all_messages,       \* the local all_messages of get_all_messages, then its result
    requests,           \* the GETs the call has issued, in order (0: messageFolders, p: page p)
    served,             \* the data arrays the message-page requests were answered with
    api_error           \* the exception that left the call

apiVars == <<api_pc, api, page, all_messages, requests, served, api_error>>

VARIABLES
    live_drivers,       \* Chrome drivers the browser client created and has not quit
    quit_raised,        \* driver.quit() raised in the last logout
    local_storage,      \* the last get_local_storage call: the browser's 'auth'
                        \* item and the dict returned, [item, returned]
    requests_client,    \* an OFWClient: its is_authenticated flag and its last
                        \* login call (see NewRequestsClient)
    hybrid              \* an OFWHybridClient (see NoHybrid)

processVars == <<live_drivers, quit_raised, local_storage, requests_client, hybrid>>

vars == <<cacheVars, clientVars, authVars, apiVars, processVars>>

----------------------------------------------------------------------------
(* Bounds *)

MaxLen == 2             \* longest token
MaxCalls == 2           \* create_with_auto_auth calls in one run
MaxDelay == 2           \* longest time one poll's element lookups take, in ticks
MaxPages == 3           \* pages of the longest folder, and the largest max_pages

----------------------------------------------------------------------------
(* Constants of OFWBrowserClient.login *)

max_wait == 15          \* seconds the marker poll may last
error_min_elapsed == 5  \* seconds before an error element ends the login
ticks_per_second == 2   \* one tick is the poll's time.sleep(0.5)

----------------------------------------------------------------------------
(* Python values *)

None == [kind |-> "none", val |-> <<>>]
Str(s) == [kind |-> "str", val |-> s]
Num == [kind |-> "num", val |-> <<>>]
EmptyList == [kind |-> "list", val |-> <<>>]

\* bool(v) of a Python value
Truthy(v) ==
    CASE v.kind = "str" -> v.val # <<>>
      [] v.kind = "num" -> TRUE
      [] OTHER -> FALSE

TokenChars == {"a", "q", "b"}

RECURSIVE SeqsUpTo(_)
SeqsUpTo(n) ==
    IF n = 0 THEN {<<>>}
    ELSE LET shorter == SeqsUpTo(n - 1)
         IN  shorter \cup {Append(s, c) : s \in shorter, c \in TokenChars}

Strings == SeqsUpTo(MaxLen)
Tokens == {Str(s) : s \in Strings \ {<<>>}}

----------------------------------------------------------------------------
(* json.dump / json.load on the cache record *)

\* json.encoder: the escape of one character inside a string literal
EscapeChar(c) ==
    IF c = "q" THEN <<"b", "q">>
    ELSE IF c = "b" THEN <<"b", "b">>
    ELSE <<c>>

RECURSIVE EscapeAll(_)
EscapeAll(s) ==
    IF s = <<>> THEN <<>> ELSE EscapeChar(Head(s)) \o EscapeAll(Tail(s))

\* json.dump of one value
encode_value(v) ==
    CASE v.kind = "str"  -> <<"q">> \o EscapeAll(v.val) \o <<"q">>
      [] v.kind = "none" -> <<"n">>
      [] v.kind = "num"  -> <<"5">>
      [] OTHER           -> <<"[", "]">>

\* the record written under another member name
dump_cache_data_other_key(token) ==
    <<"{", "w", "O">> \o encode_value(token) \o <<"w", "}">>

\* cache_data = {'token': token}; json.dump(cache_data, f, indent=2)
dump_cache_data(token) ==
    <<"{", "w", "K">> \o encode_value(token) \o <<"w", "}">>

RECURSIVE SkipWs(_, _)
SkipWs(f, i) ==
    IF i <= Len(f) /\ f[i] = "w" THEN SkipWs(f, i + 1) ELSE i

\* json.decoder.scanstring: i is the position after the opening quote
RECURSIVE scanstring(_, _, _)
scanstring(f, i, acc) ==
    IF i > Len(f) THEN [ok |-> FALSE, value |-> None, end |-> i]
    ELSE IF f[i] = "q" THEN [ok |-> TRUE, value |-> Str(acc), end |-> i + 1]
    ELSE IF f[i] = "b" THEN
        IF i + 1 <= Len(f) /\ f[i + 1] \in {"q", "b"}
        THEN scanstring(f, i + 2, Append(acc, f[i + 1]))
        ELSE [ok |-> FALSE, value |-> None, end |-> i]
    ELSE scanstring(f, i + 1, Append(acc, f[i]))

\* a string, null, number or empty list starting at position i
scan_scalar(f, i) ==
    IF i > Len(f) THEN [ok |-> FALSE, value |-> None, end |-> i]
    ELSE CASE f[i] = "q" -> scanstring(f, i + 1, <<>>)
           [] f[i] = "n" -> [ok |-> TRUE, value |-> None, end |-> i + 1]
           [] f[i] = "5" -> [ok |-> TRUE, value |-> Num, end |-> i + 1]
           [] f[i] = "[" ->
                LET j == SkipWs(f, i + 1)
                IN  IF j <= Len(f) /\ f[j] = "]"
                    THEN [ok |-> TRUE, value |-> EmptyList, end |-> j + 1]
                    ELSE [ok |-> FALSE, value |-> None, end |-> j]
           [] OTHER -> [ok |-> FALSE, value |-> None, end |-> i]

ParseError == [ok |-> FALSE, kind |-> "error", has_token |-> FALSE, token |-> None]
Document(kind, has, tok) == [ok |-> TRUE, kind |-> kind, has_token |-> has, token |-> tok]
NoObject(at) == [ok |-> FALSE, has |-> FALSE, value |-> None, end |-> at]

\* the closing brace after the member m, expected at position e
close_object(f, j, m, e) ==
    IF m.ok /\ e <= Len(f) /\ f[e] = "}"
    THEN [ok |-> TRUE, has |-> (f[j] = "K"), value |-> m.value, end |-> e + 1]
    ELSE NoObject(e)

\* the member whose name is at position j and whose value was scanned as m
scan_member(f, j, m) == close_object(f, j, m, SkipWs(f, m.end))

\* an object with at most one member; j is the first position after the
\* opening brace that holds no whitespace
scan_object_at(f, j) ==
    IF j > Len(f) THEN NoObject(j)
    ELSE IF f[j] = "}" THEN [ok |-> TRUE, has |-> FALSE, value |-> None, end |-> j + 1]
    ELSE IF f[j] \in {"K", "O"} THEN scan_member(f, j, scan_scalar(f, SkipWs(f, j + 1)))
    ELSE NoObject(j)

scan_object(f, i) == scan_object_at(f, SkipWs(f, i))

\* nothing but whitespace may follow the value
whole_object(f, o) ==
    IF o.ok /\ SkipWs(f, o.end) > Len(f)
    THEN Document("object", o.has, o.value)
    ELSE ParseError

whole_scalar(f, v) ==
    IF v.ok /\ SkipWs(f, v.end) > Len(f)
    THEN Document(v.value.kind, FALSE, None)
    ELSE ParseError

json_load_at(f, i) ==
    IF i > Len(f) THEN ParseError
    ELSE IF f[i] = "{" THEN whole_object(f, scan_object(f, i + 1))
    ELSE whole_scalar(f, scan_scalar(f, i))

\* json.load: the whole content must be one JSON value
json_load(f) == json_load_at(f, SkipWs(f, 1))

----------------------------------------------------------------------------
(* The cache file *)

Missing == [state |-> "missing", content |-> <<>>]
Unreadable == [state |-> "unreadable", content |-> <<>>]
File(content) == [state |-> "file", content |-> content]

\* the file opened without truncation: what lay beyond the new record stays
write_cache_in_place(c, token) ==
    IF c.state = "unreadable" THEN c
    ELSE LET rec == dump_cache_data(token)
         IN  File(rec \o SubSeq(c.content, Len(rec) + 1, Len(c.content)))

\* with open(self.token_cache_file, 'w') as f: json.dump(cache_data, f, indent=2)
write_cache(c, token) ==
    IF c.state = "unreadable" THEN c ELSE File(dump_cache_data(token))

\* _save_token_to_cache: an OSError of open is logged and swallowed
save_token_to_cache(c, token) == write_cache(c, token)

\* lines 144-147: token = cache_data.get('token'); if token: return token
read_token(doc) ==
    IF ~doc.ok THEN [exc |-> "JSONDecodeError", value |-> None]
    ELSE IF doc.kind # "object" THEN [exc |-> "AttributeError", value |-> None]
    ELSE IF doc.has_token /\ Truthy(doc.token)
         THEN [exc |-> "none", value |-> doc.token]
         ELSE [exc |-> "none", value |-> None]

\* the body of _load_token_from_cache's try block
load_body(c) ==
    IF c.state = "missing" THEN [exc |-> "none", value |-> None]
    ELSE IF c.state = "unreadable" THEN [exc |-> "OSError", value |-> None]
    ELSE read_token(json_load(c.content))

\* an except clause that names the I/O and JSON errors only
load_catches_io_json(exc) == exc \in {"OSError", "JSONDecodeError"}

\* the except clause of _load_token_from_cache
load_catches(exc) == exc \in {"OSError", "JSONDecodeError", "AttributeError"}

\* what leaves _load_token_from_cache when its try block ended as r
load_result(r) ==
    IF r.exc = "none" THEN [raised |-> FALSE, value |-> r.value]
    ELSE IF load_catches(r.exc) THEN [raised |-> FALSE, value |-> None]
    ELSE [raised |-> TRUE, value |-> None]

\* _load_token_from_cache
load_token_from_cache(c) == load_result(load_body(c))

----------------------------------------------------------------------------
(* The validity probe and the client's authentication state *)

\* what session.get may do: raise, or answer with a status
TransportError == [exc |-> TRUE, status |-> 0]
Status(n) == [exc |-> FALSE, status |-> n]
Statuses == {200, 204, 301, 401, 403, 500}
Responses == {Status(n) : n \in Statuses} \cup {TransportError}
NoResp == [exc |-> FALSE, status |-> 0]

NoCall == [op |-> "none", token |-> None, resp |-> NoResp, result |-> FALSE]
NoPrev == [outcome |-> "none", browser |-> FALSE]
\* greeting, notifications, error: some poll saw the element;
\* both: some poll saw the two markers together; both_error: and an error element
\* eligible: some poll saw an error element on the login URL after the minimum
\*           elapsed time without both markers
\* ending:   and that element had text and the dumps of the poll were written
NothingSeen ==
    [greeting |-> FALSE, notifications |-> FALSE, error |-> FALSE,
     both |-> FALSE, both_error |-> FALSE, eligible |-> FALSE, ending |-> FALSE]

\* the form step of login: fields (username and password were found), control
\* (a submit control was found), fault (filling in or submitting raised), how
\* (the way the form was submitted: "no", "click", "script"), absent (the field
\* the lookup did not find: "none", "username", "password"), filled (a
\* credential was typed into a field)
NoForm ==
    [fields |-> FALSE, control |-> FALSE, fault |-> FALSE, how |-> "no",
     absent |-> "none", filled |-> FALSE]
NoFolders == [called |-> FALSE, resp |-> NoResp, ok |-> FALSE]

\* a check of response.ok instead of the status code 200
test_token_ok(resp) == ~resp.exc /\ resp.status < 400

\* _test_token, given what the GET of /pub/v1/messageFolders does
test_token(resp) ==
    IF resp.exc THEN FALSE
    ELSE IF resp.status = 200 THEN TRUE
    ELSE IF resp.status = 401 THEN FALSE
    ELSE FALSE

\* lines 196-202 of authenticate_with_token, the probe having said valid
authenticated_as(token, valid) ==
    IF valid
    THEN [is_authenticated |-> TRUE, auth_token |-> token, authorization |-> token]
    ELSE [is_authenticated |-> FALSE, auth_token |-> None, authorization |-> token]

\* authenticate_with_token(token): the result and the client's fields afterwards
authenticate_with_token(token, resp) ==
    [result |-> test_token(resp), client |-> authenticated_as(token, test_token(resp))]

\* a client as __init__ leaves it
FreshClient == [is_authenticated |-> FALSE, auth_token |-> None, authorization |-> None]

\* a cached token trusted without a probe
try_token_unprobed(token, cl, resp) ==
    IF ~Truthy(token)
    THEN [result |-> FALSE, probed |-> FALSE, client |-> cl]
    ELSE [result |-> TRUE, probed |-> TRUE, client |-> authenticated_as(token, TRUE)]

\* a cached value probed whatever it is
try_token_always(token, cl, resp) ==
    [result |-> test_token(resp), probed |-> TRUE,
     client |-> authenticate_with_token(token, resp).client]

\* lines 268-278 of try_cached_token, token being what the cache gave
try_token(token, cl, resp) ==
    IF ~Truthy(token)
    THEN [result |-> FALSE, probed |-> FALSE, client |-> cl]
    ELSE [result |-> test_token(resp), probed |-> TRUE,
          client |-> authenticate_with_token(token, resp).client]

\* try_cached_token on client cl with cache file c; resp answers the probe
try_cached_token(c, cl, resp) ==
    try_token(load_token_from_cache(c).value, cl, resp)

\* what the GET of localstorage.json may do: raise, answer with an error status,
\* or answer 200 with a JSON object whose 'auth' member is auth (None: no member)
LsError == [ok |-> FALSE, auth |-> None]
LsBody(auth) == [ok |-> TRUE, auth |-> auth]
ServerTokens == {Str(<<"a">>), Str(<<"q", "b">>)}
LsResponses == {LsError} \cup {LsBody(v) : v \in ServerTokens \cup {None, Str(<<>>), Num}}

\* _get_auth_token_from_localstorage
get_auth_token_from_localstorage(ls) ==
    IF ~ls.ok THEN None                     \* raise_for_status or json() raised
    ELSE IF ~Truthy(ls.auth) THEN None      \* no 'auth' field
    ELSE IF ls.auth.kind # "str" THEN None  \* auth_token[:30] raised TypeError
    ELSE ls.auth

\* the token probed but never cached
use_token_unsaved(token, c, cl, resp) ==
    IF ~Truthy(token)
    THEN [result |-> FALSE, token |-> None, saved |-> <<>>, cache |-> c,
          probed |-> FALSE, client |-> cl]
    ELSE [result |-> test_token(resp), token |-> token, saved |-> <<>>,
          cache |-> c, probed |-> TRUE,
          client |-> authenticate_with_token(token, resp).client]

\* lines 247-255 of load_cookies_from_browser: cache the token, then probe it
use_token(token, c, cl, resp) ==
    IF ~Truthy(token)
    THEN [result |-> FALSE, token |-> None, saved |-> <<>>, cache |-> c,
          probed |-> FALSE, client |-> cl]
    ELSE [result |-> test_token(resp), token |-> token, saved |-> <<token>>,
          cache |-> save_token_to_cache(c, token), probed |-> TRUE,
          client |-> authenticate_with_token(token, resp).client]

\* load_cookies_from_browser that reports success whatever the probe said
load_cookies_from_browser_true(c, cl, ls, resp) ==
    [use_token(get_auth_token_from_localstorage(ls), c, cl, resp) EXCEPT !.result = TRUE]

\* load_cookies_from_browser
load_cookies_from_browser(c, cl, ls, resp) ==
    use_token(get_auth_token_from_localstorage(ls), c, cl, resp)

\* what load_from_browser_client is given as localstorage_data: nothing (or a
\* dict that is empty or lacks 'auth'), or a dict whose 'auth' member is auth
NoLocalStorageData == [has_auth |-> FALSE, auth |-> None]
LocalStorageData(auth) == [has_auth |-> TRUE, auth |-> auth]
LocalStorageArgs ==
    {NoLocalStorageData}
        \cup {LocalStorageData(v) : v \in ServerTokens \cup {None, Str(<<>>), Num}}

\* lines 218-222 of load_from_browser_client: the given auth value is cached
\* and probed as it is
use_given_auth(auth, c, resp) ==
    [result |-> test_token(resp), token |-> auth, saved |-> <<auth>>,
     cache |-> save_token_to_cache(c, auth), probed |-> TRUE,
     client |-> authenticate_with_token(auth, resp).client]

\* load_from_browser_client(browser_client, localstorage_data)
load_from_browser_client(data, c, cl, ls, resp) ==
    IF data.has_auth THEN use_given_auth(data.auth, c, resp)
    ELSE load_cookies_from_browser(c, cl, ls, resp)

\* response = self.session.get(...); response.raise_for_status();
\* data = response.json(): raise_for_status raises HTTPError for the statuses
\* 400-599, and json() raises on a response without content (204, 304)
after_get(resp) ==
    IF resp.exc THEN "ConnectionError"
    ELSE IF resp.status >= 400 /\ resp.status < 600 THEN "HTTPError"
    ELSE IF resp.status \in {204, 304} THEN "JSONDecodeError"
    ELSE "ok"

\* get_folders on client cl; resp is what session.get does
get_folders(cl, resp) ==
    IF ~cl.is_authenticated THEN "NotAuthenticated" ELSE after_get(resp)

----------------------------------------------------------------------------
(* OFWBrowserClient.login *)

MaxTicks == max_wait * ticks_per_second

\* what one pass of the poll loop sees
\* (exc: a lookup raised; text: the first error element has text)
Observations ==
    { o \in [exc : BOOLEAN, greeting : BOOLEAN, notifications : BOOLEAN,
             on_login : BOOLEAN, error : BOOLEAN, text : BOOLEAN] :
        /\ o.text => o.error
        /\ o.exc => ~(o.greeting \/ o.notifications \/ o.on_login \/ o.error) }

\* a poll that lets an error element end the login at once
poll_decision_early(obs, now) ==
    IF obs.exc THEN "exception"
    ELSE IF obs.greeting /\ obs.notifications THEN "success"
    ELSE IF obs.on_login /\ obs.error /\ obs.text THEN "error"
    ELSE "continue"

\* a poll that is content with either marker
poll_decision_either(obs, now) ==
    IF obs.exc THEN "exception"
    ELSE IF obs.greeting \/ obs.notifications THEN "success"
    ELSE IF obs.on_login /\ obs.error /\ now > error_min_elapsed * ticks_per_second
            /\ obs.text
         THEN "error"
    ELSE "continue"

\* one pass of the poll loop; now is time.time() - start_time when the error
\* element is examined
poll_decision(obs, now) ==
    IF obs.exc THEN "exception"
    ELSE IF obs.greeting /\ obs.notifications THEN "success"
    ELSE IF obs.on_login /\ obs.error /\ now > error_min_elapsed * ticks_per_second
            /\ obs.text
         THEN "error"
    ELSE "continue"

\* login's except Exception handler: the debug dumps are written when a driver
\* exists, and an error of theirs leaves login as an exception
login_handler(drv, art_ok) ==
    IF drv = "live" /\ ~art_ok THEN "login_raised" ELSE "login_false"

\* a verification step that reports success whatever the poll found
login_verdict_always(successful) == "login_true"

\* lines 250-276: the verdict after the poll
login_verdict(successful) == IF successful THEN "login_true" ELSE "login_false"

Min(a, b) == IF a < b THEN a ELSE b

\* line 208: while time.time() - start_time < max_wait
loop_continues(e) == e < MaxTicks

\* a loop that takes start_time anew in every pass
time_after_poll_restarted(e, delay) == delay + 1

\* time.time() - start_time at the top of the next pass: the lookups of this
\* pass took delay ticks and time.sleep(0.5) one more (lines 235 and 239)
time_after_poll(e, delay) == Min(e + delay + 1, MaxTicks)

\* lines 149-160: the submit control, looked up by four selectors in turn; the
\* last lookup is not guarded, so finding none raises NoSuchElementException
find_submit_button(found) == IF found THEN "control" ELSE "NoSuchElementException"

\* lines 187-191: click the control, or submit the form by script when
\* submit_button is None
submit_form(button) == IF button = "control" THEN "click" ELSE "script"

\* lines 162-193, once both fields were found: button is what the lookup of the
\* submit control gave, fault an exception of filling in or submitting
form_after_fields(button, fault) ==
    [fields |-> TRUE, control |-> button = "control", fault |-> fault,
     how |-> IF button = "NoSuchElementException" \/ fault THEN "no"
             ELSE submit_form(button),
     absent |-> "none", filled |-> button = "control"]

\* a form step that types the username in as soon as its field is found
form_step_fill_first(outcome) ==
    IF outcome = "no_username" THEN [NoForm EXCEPT !.absent = "username"]
    ELSE IF outcome = "no_password"
         THEN [NoForm EXCEPT !.absent = "password", !.filled = TRUE]
    ELSE form_after_fields(find_submit_button(outcome # "no_submit"),
                           outcome = "fill_fail")

\* lines 136-193: what the form step did, by its outcome; the wait for the
\* username field ends in TimeoutException (line 138), the lookup of the
\* password field in NoSuchElementException (line 144), both before line 173
form_step(outcome) ==
    IF outcome = "no_username" THEN [NoForm EXCEPT !.absent = "username"]
    ELSE IF outcome = "no_password" THEN [NoForm EXCEPT !.absent = "password"]
    ELSE form_after_fields(find_submit_button(outcome # "no_submit"),
                           outcome = "fill_fail")

----------------------------------------------------------------------------
(* The token cache on its own: saves, loads and interrupted saves *)

\* what a cache file may hold before the client first touches it
InitialContents ==
    { <<>>,                                     \* empty file
      <<"a">>,                                  \* not JSON
      <<"[", "]">>,                             \* JSON, not an object
      <<"q", "a", "q">>,                        \* JSON, a bare string
      <<"{", "}">>,                             \* object without members
      <<"{", "O", "q", "a", "q", "}">>,         \* object without a token member
      <<"{", "K", "n", "}">>,                   \* token is null
      <<"{", "K", "q", "q", "}">>,              \* token is the empty string
      <<"{", "K", "5", "}">>,                   \* token is a number
      <<"{", "K", "q", "a", "q", "}">>,         \* a record written without indent
      <<"{", "w", "K", "q", "a", "q", "w", "}", "a">>,  \* record, then extra data
      <<"{", "w", "K", "q", "a">>,              \* a record cut short
      <<"{", "K", "q", "b", "a", "q", "}">>,    \* invalid escape in the token
      dump_cache_data(Str(<<"a">>)),
      dump_cache_data(Str(<<"q", "b">>)) }

InitialCaches == {Missing, Unreadable} \cup {File(x) : x \in InitialContents}

SaveArgs == Tokens \cup {Str(<<>>)}

NoCut == [old |-> None, new |-> None]

Shift(op) == <<ops[2], ops[3], op>>

InitCacheVars ==
    /\ cache \in InitialCaches
    /\ ops = <<"init", "init", "init">>
    /\ saved = None
    /\ ret = None
    /\ raised = FALSE
    /\ shrunk = FALSE
    /\ cut = NoCut

\* OFWMessagesClient.__init__
InitClientVars ==
    /\ is_authenticated = FALSE
    /\ auth_token = None
    /\ authorization = None
    /\ call = NoCall

\* before the first create_with_auto_auth call
InitAuthVars ==
    /\ pc = "idle"
    /\ calls = 0
    /\ prev = NoPrev
    /\ driver = "none"
    /\ browser_auth = FALSE
    /\ submitted = NoForm
    /\ elapsed = 0
    /\ login_successful = FALSE
    /\ poll_end = "none"
    /\ seen = NothingSeen
    /\ login_calls = 0
    /\ drivers_created = 0
    /\ cache_probe = NoResp
    /\ saved_in_call = <<>>
    /\ cache_at_start = Missing
    /\ new_token = None
    /\ escaped = "none"
    /\ folders = NoFolders

\* no API call made yet
NoApiCall ==
    [op |-> "none", folder_given |-> FALSE, max_pages |-> [given |-> FALSE, n |-> 0],
     last_page |-> 0, authenticated |-> FALSE, has_inbox |-> FALSE, folder |-> <<>>]

InitApiVars ==
    /\ api_pc = "idle"
    /\ api = NoApiCall
    /\ page = 0
    /\ all_messages = <<>>
    /\ requests = <<>>
    /\ served = <<>>
    /\ api_error = "none"

\* a localStorage 'auth' item: absent, or present with the string value s
NoItem == [has |-> FALSE, value |-> <<>>]
Item(s) == [has |-> TRUE, value |-> s]

\* get_local_storage not called yet
NoStorageCall == [item |-> NoItem, returned |-> NoLocalStorageData]

\* what a login call of OFWClient was answered: the two GETs and the page the
\* POST ended on; nothing before the first call
NoAnswers == [init |-> NoResp, page |-> NoResp, post |-> NoResp, again |-> NoResp]

\* OFWClient.__init__: result and sent are the outcome of the last login call
\* ("none", "true", "false") and the requests it sent, in order
NewRequestsClient ==
    [is_authenticated |-> FALSE, result |-> "none", sent |-> <<>>, answers |-> NoAnswers]

\* no OFWHybridClient constructed yet; requests_client and browser_client
\* tell whether the attribute holds a client, used are the transports the
\* last login call invoked, in order, and result is how the last call ended
\* (login: "pending", "true", "false", "raised"; logout: "logged_out",
\* "logout_raised"; "none" before the first)
NoHybrid ==
    [mode |-> "none", is_authenticated |-> FALSE, current_mode |-> "none",
     requests_client |-> FALSE, browser_client |-> FALSE,
     force_browser |-> FALSE, used |-> <<>>, result |-> "none"]

\* OFWBrowserClient.__init__: self.driver = None
InitProcessVars ==
    /\ live_drivers = 0
    /\ quit_raised = FALSE
    /\ local_storage = NoStorageCall
    /\ requests_client = NewRequestsClient
    /\ hybrid = NoHybrid

InitCache ==
    InitCacheVars /\ InitClientVars /\ InitAuthVars /\ InitApiVars /\ InitProcessVars

\* client._save_token_to_cache(token), run to completion
SaveTokenToCache(token) ==
    /\ cache' = save_token_to_cache(cache, token)
    /\ ops' = Shift("save")
    /\ saved' = token
    /\ shrunk' = (Len(cache.content) > Len(cache'.content))
    /\ ret' = None
    /\ raised' = FALSE
    /\ cut' = NoCut
    /\ UNCHANGED <<clientVars, authVars, apiVars, processVars>>

LoadedAs(r) ==
    /\ ret' = r.value
    /\ raised' = r.raised
    /\ ops' = Shift("load")
    /\ UNCHANGED <<cache, saved, shrunk, cut>>
    /\ UNCHANGED <<clientVars, authVars, apiVars, processVars>>

\* client._load_token_from_cache()
LoadTokenFromCache == LoadedAs(load_token_from_cache(cache))

\* client._save_token_to_cache(token) stopped after open(..., 'w') truncated
\* the file and the first k characters of the record reached it
InterruptedSave(token, k) ==
    /\ cache.state # "unreadable"
    /\ k < Len(dump_cache_data(token))
    /\ cache' = File(SubSeq(dump_cache_data(token), 1, k))
    /\ cut' = [old |-> load_token_from_cache(cache).value, new |-> token]
    /\ ops' = Shift("interrupted")
    /\ saved' = None
    /\ ret' = None
    /\ raised' = FALSE
    /\ shrunk' = FALSE
    /\ UNCHANGED <<clientVars, authVars, apiVars, processVars>>

NextCache ==
    \/ \E t \in SaveArgs : SaveTokenToCache(t)
    \/ LoadTokenFromCache

SpecCache == InitCache /\ [][NextCache]_vars

NextCrash ==
    \/ \E t \in SaveArgs : SaveTokenToCache(t)
    \/ LoadTokenFromCache
    \/ \E t \in Tokens : \E k \in 0..(2 * MaxLen + 5) : InterruptedSave(t, k)

SpecCrash == InitCache /\ [][NextCrash]_vars

----------------------------------------------------------------------------
(* Properties of the token cache *)

StripWs(f) == SelectSeq(f, LAMBDA c : c # "w")

\* the file is exactly a record whose token member is v, up to whitespace
HoldsRecord(c, v) ==
    /\ c.state = "file"
    /\ StripWs(c.content) = <<"{", "K">> \o encode_value(v) \o <<"}">>

FieldValues == Tokens \cup {Num, Str(<<>>), None}

\* C6: for every non-empty string t, _save_token_to_cache(t) followed by
\* _load_token_from_cache() on the same (accessible) cache file returns t.
C6_SaveLoadRoundTrip ==
    (ops[2] = "save" /\ ops[3] = "load" /\ saved \in Tokens /\ cache.state = "file")
        => (~raised /\ ret = saved)

C6_Witness ==
    /\ ops[2] = "save" /\ ops[3] = "load"
    /\ saved = Str(<<"b", "q">>)
    /\ ret = saved

\* C7: _save_token_to_cache(t1) followed by _save_token_to_cache(t2) leaves the
\* cache file holding exactly the record of t2, nothing of the earlier content,
\* and _load_token_from_cache() then returns t2.
C7_SaveOverwrites ==
    (ops[1] = "save" /\ ops[2] = "save" /\ ops[3] = "load" /\ cache.state = "file")
        => /\ cache.content = dump_cache_data(saved)
           /\ saved \in Tokens => ret = saved

C7_Witness ==
    /\ ops = <<"save", "save", "load">>
    /\ shrunk
    /\ saved \in Tokens
    /\ ret = saved
    /\ cache.content = dump_cache_data(saved)

\* C8: _load_token_from_cache never raises; it returns the token member of a
\* well-formed record, and None when the file is missing, unreadable, not JSON,
\* not an object or without a token member (an empty token counts as absent).
C8_LoadNeverRaises ==
    ops[3] = "load" =>
        /\ ~raised
        /\ \A v \in Tokens \cup {Num} : HoldsRecord(cache, v) => ret = v
        /\ HoldsRecord(cache, Str(<<>>)) => ret = None
        /\ (\A v \in FieldValues : ~HoldsRecord(cache, v)) => ret = None

C8_Witness ==
    /\ ops[3] = "load"
    /\ cache = File(<<"[", "]">>)
    /\ ret = None
    /\ ~raised

\* C9: a _load_token_from_cache after an interrupted _save_token_to_cache
\* returns the previously cached token or the new token, never anything else.
C9_InterruptedSaveAtomic ==
    (ops[2] = "interrupted" /\ ops[3] = "load") => ret \in {cut.old, cut.new}

----------------------------------------------------------------------------
(* One OFWMessagesClient and its cache file: the authentication methods *)

\* client._test_token() with the headers the session has
TestToken(resp) ==
    /\ call' = [op |-> "test_token", token |-> authorization,
                resp |-> resp, result |-> test_token(resp)]
    /\ UNCHANGED <<is_authenticated, auth_token, authorization>>
    /\ UNCHANGED <<cacheVars, authVars, apiVars, processVars>>

AuthenticatedAs(token, resp, a) ==
    /\ is_authenticated' = a.client.is_authenticated
    /\ auth_token' = a.client.auth_token
    /\ authorization' = a.client.authorization
    /\ call' = [op |-> "authenticate_with_token", token |-> token,
                resp |-> resp, result |-> a.result]
    /\ UNCHANGED <<cacheVars, authVars, apiVars, processVars>>

\* client.authenticate_with_token(token)
AuthenticateWithToken(token, resp) ==
    AuthenticatedAs(token, resp, authenticate_with_token(token, resp))

NextClient ==
    \/ \E resp \in Responses : TestToken(resp)
    \/ \E t \in SaveArgs, resp \in Responses : AuthenticateWithToken(t, resp)

SpecClient == InitCache /\ [][NextClient]_vars

\* C10: _test_token and authenticate_with_token yield true exactly when the
\* probe answers 200, and false for 401, any other status and a transport
\* error, whatever the token is; authenticate_with_token leaves
\* is_authenticated equal to its result.
C10_ValidityIsProbeStatus ==
    /\ call.op \in {"test_token", "authenticate_with_token"}
          => (call.result <=> (~call.resp.exc /\ call.resp.status = 200))
    /\ call.op = "authenticate_with_token" => is_authenticated = call.result

C10_Witness ==
    /\ call.op = "authenticate_with_token"
    /\ call.token = Str(<<"q", "b">>)
    /\ call.resp = Status(401)
    /\ ~call.result
    /\ ~is_authenticated

----------------------------------------------------------------------------
(* create_with_auto_auth, OFWBrowserClient.login and the calls that follow *)

AuthCaches ==
    { Missing, Unreadable,
      File(<<"a">>),
      File(<<"{", "K", "q", "q", "}">>),
      File(dump_cache_data(Str(<<"a">>))),
      File(dump_cache_data(Str(<<"b">>))) }

InitAuth ==
    /\ cache \in AuthCaches
    /\ ops = <<"init", "init", "init">>
    /\ saved = None
    /\ ret = None
    /\ raised = FALSE
    /\ shrunk = FALSE
    /\ cut = NoCut
    /\ InitClientVars
    /\ InitAuthVars
    /\ InitApiVars
    /\ InitProcessVars

loginVars == <<driver, browser_auth, submitted, elapsed, login_successful, poll_end,
               seen>>
callVars == <<calls, prev, login_calls, drivers_created, cache_probe, saved_in_call,
              cache_at_start, new_token, escaped, folders>>

CurrentClient ==
    [is_authenticated |-> is_authenticated, auth_token |-> auth_token,
     authorization |-> authorization]

StartedAs(resp, t) ==
    /\ pc \in {"idle", "returned", "raised"}
    /\ calls < MaxCalls
    /\ is_authenticated' = t.client.is_authenticated
    /\ auth_token' = t.client.auth_token
    /\ authorization' = t.client.authorization
    /\ cache_probe' = IF t.probed THEN resp ELSE NoResp
    /\ pc' = IF t.result THEN "returned" ELSE "need_login"
    /\ calls' = calls + 1
    /\ prev' = [outcome |-> pc, browser |-> login_calls > 0]
    /\ cache_at_start' = cache
    /\ login_calls' = 0
    /\ drivers_created' = 0
    /\ saved_in_call' = <<>>
    /\ new_token' = None
    /\ escaped' = "none"
    /\ folders' = NoFolders
    /\ driver' = "none"
    /\ browser_auth' = FALSE
    /\ submitted' = NoForm
    /\ elapsed' = 0
    /\ login_successful' = FALSE
    /\ poll_end' = "none"
    /\ seen' = NothingSeen
    /\ live_drivers' = 0
    /\ quit_raised' = FALSE
    /\ UNCHANGED <<cacheVars, call, apiVars, local_storage, requests_client, hybrid>>

\* create_with_auto_auth up to the decision on the cached token:
\* OFWMessagesClient(token_cache_file), then try_cached_token()
StartCall(resp) == StartedAs(resp, try_cached_token(cache, FreshClient, resp))

\* a login that sets up a driver whether or not it has one
setup_needed_always(drv) == TRUE

\* login, line 120: if not self.driver
setup_needed(drv) == drv = "none"

\* with OFWBrowserClient(headless) as browser: browser.login(...), lines 118-132:
\* the driver is set up and the login page loaded
LoginSetup(outcome, art_ok) ==
    /\ pc = "need_login"
    /\ outcome \in {"chrome_fail", "cdp_fail"} => setup_needed(driver)
    /\ login_calls' = login_calls + 1
    /\ driver' = IF setup_needed(driver) /\ outcome = "chrome_fail" THEN "none"
                 ELSE "live"
    /\ drivers_created' = IF setup_needed(driver) /\ outcome # "chrome_fail"
                          THEN drivers_created + 1
                          ELSE drivers_created
    /\ pc' = IF outcome = "ok" THEN "login_form" ELSE login_handler(driver', art_ok)
    /\ UNCHANGED <<browser_auth, submitted, elapsed, login_successful, poll_end, seen>>
    /\ UNCHANGED <<calls, prev, cache_probe, saved_in_call, cache_at_start,
                   new_token, escaped, folders>>
    /\ live_drivers' = live_drivers + (drivers_created' - drivers_created)
    /\ UNCHANGED <<cacheVars, clientVars, apiVars, quit_raised, local_storage,
                   requests_client, hybrid>>

\* login, lines 135-197: the form is located, filled in and submitted
LoginForm(outcome, art_ok) ==
    /\ pc = "login_form"
    /\ submitted' = form_step(outcome)
    /\ IF outcome = "submitted"
       THEN /\ elapsed' = 0
            /\ pc' = "login_poll"
       ELSE /\ pc' = login_handler(driver, art_ok)
            /\ UNCHANGED elapsed
    /\ UNCHANGED <<driver, browser_auth, login_successful, poll_end, seen>>
    /\ UNCHANGED <<cacheVars, clientVars, callVars, apiVars, processVars>>

\* a poll that saw an error element on the login URL, later than the minimum
\* elapsed time, without both markers
error_eligible(obs, now) ==
    /\ obs.on_login /\ obs.error
    /\ now > error_min_elapsed * ticks_per_second
    /\ ~(obs.greeting /\ obs.notifications)

\* what the polls have seen, after one more that saw obs
see(obs, now, art_ok) ==
    IF obs.exc THEN seen
    ELSE [greeting |-> seen.greeting \/ obs.greeting,
          notifications |-> seen.notifications \/ obs.notifications,
          error |-> seen.error \/ obs.error,
          both |-> seen.both \/ (obs.greeting /\ obs.notifications),
          both_error |-> seen.both_error
                            \/ (obs.greeting /\ obs.notifications /\ obs.error),
          eligible |-> seen.eligible \/ error_eligible(obs, now),
          ending |-> seen.ending \/ (error_eligible(obs, now) /\ obs.text /\ art_ok)]

PolledAs(d, obs, delay, art_ok) ==
    /\ pc = "login_poll"
    /\ loop_continues(elapsed)
    /\ seen' = see(obs, elapsed + delay, art_ok)
    /\ IF d = "success"
       THEN /\ login_successful' = TRUE
            /\ poll_end' = "markers"
            /\ pc' = "login_verify"
            /\ UNCHANGED elapsed
       ELSE IF d = "error" /\ art_ok
       THEN /\ poll_end' = "error"
            /\ pc' = "login_false"
            /\ UNCHANGED <<elapsed, login_successful>>
       ELSE /\ elapsed' = time_after_poll(elapsed, delay)
            /\ UNCHANGED <<pc, login_successful, poll_end>>
    /\ UNCHANGED <<driver, browser_auth, submitted>>
    /\ UNCHANGED <<cacheVars, clientVars, callVars, apiVars, processVars>>

\* login, lines 208-239: one pass of the poll loop
LoginPoll(obs, delay, art_ok) ==
    PolledAs(poll_decision(obs, elapsed + delay), obs, delay, art_ok)

\* login, line 208: the loop condition fails
LoginPollTimeout ==
    /\ pc = "login_poll"
    /\ ~loop_continues(elapsed)
    /\ poll_end' = "timeout"
    /\ pc' = "login_verify"
    /\ UNCHANGED <<driver, browser_auth, submitted, elapsed, login_successful, seen>>
    /\ UNCHANGED <<cacheVars, clientVars, callVars, apiVars, processVars>>

\* login, lines 241-287: the dumps after the poll and the verdict
LoginVerify(outcome, art_ok) ==
    /\ pc = "login_verify"
    /\ \/ /\ outcome = "exception"
          /\ pc' = login_handler(driver, art_ok)
          /\ UNCHANGED browser_auth
       \/ /\ outcome = "cookies_fail"
          /\ login_successful
          /\ browser_auth' = TRUE
          /\ pc' = login_handler(driver, art_ok)
       \/ /\ outcome = "ok"
          /\ browser_auth' = (browser_auth \/ login_successful)
          /\ pc' = login_verdict(login_successful)
    /\ UNCHANGED <<driver, submitted, elapsed, login_successful, poll_end, seen>>
    /\ UNCHANGED <<cacheVars, clientVars, callVars, apiVars, processVars>>

\* logout, line 446: driver.quit() raises, so the lines after it are skipped
quit_raises(quit_ok) == driver = "live" /\ ~quit_ok

\* a logout that leaves the browser of a failed login alone
LogoutIfAuthenticated(quit_ok) ==
    /\ driver' = IF browser_auth /\ ~quit_raises(quit_ok) THEN "none" ELSE driver
    /\ browser_auth' = IF browser_auth /\ driver = "live" /\ quit_ok THEN FALSE
                       ELSE browser_auth
    /\ elapsed' = 0
    /\ login_successful' = FALSE
    /\ live_drivers' = IF browser_auth /\ driver = "live" /\ quit_ok
                       THEN live_drivers - 1
                       ELSE live_drivers
    /\ quit_raised' = (browser_auth /\ quit_raises(quit_ok))
    /\ UNCHANGED <<local_storage, requests_client, hybrid>>

\* OFWBrowserClient.logout, lines 434-450; the locals of login are gone
LoggedOut(quit_ok) ==
    /\ driver' = IF quit_raises(quit_ok) THEN "live" ELSE "none"
    /\ browser_auth' = IF driver = "live" /\ quit_ok THEN FALSE ELSE browser_auth
    /\ elapsed' = 0
    /\ login_successful' = FALSE
    /\ live_drivers' = IF driver = "live" /\ quit_ok THEN live_drivers - 1
                       ELSE live_drivers
    /\ quit_raised' = quit_raises(quit_ok)

\* OFWBrowserClient.logout, run by __exit__ or by the program itself
Logout(quit_ok) ==
    /\ LoggedOut(quit_ok)
    /\ UNCHANGED <<local_storage, requests_client, hybrid>>

\* the with block is left with exception e (or "none"), and __exit__ runs:
\* an error of logout takes the place of what the block was leaving with
LeaveWith(quit_ok, e) ==
    /\ Logout(quit_ok)
    /\ escaped' = IF quit_raises(quit_ok) THEN "error of the webdriver" ELSE e
    /\ pc' = IF quit_raises(quit_ok) \/ e # "none" THEN "raised" ELSE "returned"
    /\ UNCHANGED <<submitted, poll_end, seen>>
    /\ UNCHANGED <<calls, prev, login_calls, drivers_created, cache_probe,
                   cache_at_start, folders>>
    /\ UNCHANGED <<ops, saved, ret, raised, shrunk, cut, call, apiVars>>

\* create_with_auto_auth, lines 596-597: login returned False
RaiseLoginFailed(quit_ok) ==
    /\ pc = "login_false"
    /\ LeaveWith(quit_ok, "Browser login failed")
    /\ UNCHANGED <<cache, saved_in_call, new_token, clientVars>>

\* an exception of login itself passes through the with block
PropagateLoginError(quit_ok) ==
    /\ pc = "login_raised"
    /\ LeaveWith(quit_ok, "error of a debug dump")
    /\ UNCHANGED <<cache, saved_in_call, new_token, clientVars>>

\* create_with_auto_auth, line 599: browser.get_cookies() raises
GetCookiesFails(quit_ok) ==
    /\ pc = "login_true"
    /\ LeaveWith(quit_ok, "error of the webdriver")
    /\ UNCHANGED <<cache, saved_in_call, new_token, clientVars>>

LoadedCookiesAs(r, quit_ok) ==
    /\ pc = "login_true"
    /\ cache' = r.cache
    /\ saved_in_call' = saved_in_call \o r.saved
    /\ new_token' = r.token
    /\ is_authenticated' = r.client.is_authenticated
    /\ auth_token' = r.client.auth_token
    /\ authorization' = r.client.authorization
    /\ LeaveWith(quit_ok, IF r.result THEN "none"
                          ELSE "Failed to authenticate with JWT token")

\* create_with_auto_auth, lines 599-601: load_cookies_from_browser(cookies)
LoadCookies(ls, resp, quit_ok) ==
    LoadedCookiesAs(load_cookies_from_browser(cache, CurrentClient, ls, resp), quit_ok)

\* client.get_folders() on the client create_with_auto_auth returned
GetFolders(resp) ==
    /\ pc = "returned"
    /\ folders' = [called |-> TRUE, resp |-> resp,
                   ok |-> get_folders(CurrentClient, resp) = "ok"]
    /\ UNCHANGED <<pc, calls, prev, login_calls, drivers_created, cache_probe,
                   saved_in_call, cache_at_start, new_token, escaped>>
    /\ UNCHANGED <<cacheVars, clientVars, loginVars, apiVars, processVars>>

AuthResponses == {Status(200), Status(401), Status(500), TransportError}
SetupOutcomes == {"ok", "chrome_fail", "cdp_fail", "nav_fail"}
FormOutcomes == {"submitted", "no_username", "no_password", "no_submit", "fill_fail"}
VerifyOutcomes == {"ok", "exception", "cookies_fail"}

NextAuth ==
    \/ \E resp \in AuthResponses : StartCall(resp)
    \/ \E o \in SetupOutcomes, a \in BOOLEAN : LoginSetup(o, a)
    \/ \E o \in FormOutcomes, a \in BOOLEAN : LoginForm(o, a)
    \/ \E obs \in Observations, d \in 0..MaxDelay, a \in BOOLEAN : LoginPoll(obs, d, a)
    \/ LoginPollTimeout
    \/ \E o \in VerifyOutcomes, a \in BOOLEAN : LoginVerify(o, a)
    \/ \E q \in BOOLEAN : RaiseLoginFailed(q)
    \/ \E q \in BOOLEAN : PropagateLoginError(q)
    \/ \E q \in BOOLEAN : GetCookiesFails(q)
    \/ \E ls \in LsResponses, resp \in AuthResponses, q \in BOOLEAN :
          LoadCookies(ls, resp, q)
    \/ \E resp \in AuthResponses : GetFolders(resp)

SpecAuth == InitAuth /\ [][NextAuth]_vars

----------------------------------------------------------------------------
(* Properties of create_with_auto_auth *)

Done == pc \in {"returned", "raised"}
ProbeValid(resp) == ~resp.exc /\ resp.status = 200
CachedTokenFailed == cache_probe # NoResp /\ ~ProbeValid(cache_probe)

\* C1: when the cached token fails the probe, create_with_auto_auth calls
\* OFWBrowserClient.login exactly once (never a second time), and when it
\* returns the client, the token it took from localstorage.json has been
\* given to _save_token_to_cache.
C1_LoginOnceThenSave ==
    CachedTokenFailed =>
        /\ login_calls <= 1
        /\ pc # "need_login" => login_calls = 1
        /\ pc = "returned" =>
              /\ Truthy(new_token)
              /\ saved_in_call = <<new_token>>
              /\ auth_token = new_token

C1_Witness ==
    /\ cache_probe = Status(401)
    /\ pc = "returned"
    /\ login_calls = 1
    /\ saved_in_call = <<Str(<<"q", "b">>)>>
    /\ auth_token = Str(<<"q", "b">>)
    /\ cache # cache_at_start

\* C2: a cached token whose probe answers 200 makes create_with_auto_auth
\* return an authenticated client with no browser session and no login; a
\* probe that answers 401 or raises never does: the call goes on to the
\* browser login.
C2_CachedTokenSkipsBrowser ==
    /\ cache_probe = Status(200) =>
          /\ pc = "returned"
          /\ is_authenticated
          /\ auth_token = load_token_from_cache(cache_at_start).value
          /\ login_calls = 0 /\ drivers_created = 0 /\ driver = "none"
    /\ cache_probe \in {Status(401), TransportError} =>
          /\ pc = "need_login" \/ login_calls = 1
          /\ pc = "returned" => drivers_created = 1

C2_Witness ==
    /\ cache_probe = Status(200)
    /\ pc = "returned"
    /\ is_authenticated
    /\ auth_token = Str(<<"a">>)
    /\ drivers_created = 0

\* C3: after create_with_auto_auth returned through the browser login the
\* (accessible) cache file holds the extracted token; get_folders on the
\* returned client succeeds whenever the server answers 200; and a later
\* create_with_auto_auth on that cache file probes the cached token and, when
\* the server answers 200, returns without any browser login.
C3_CachedAfterBrowserLogin ==
    /\ (pc = "returned" /\ login_calls > 0 /\ cache.state # "unreadable") =>
          /\ Truthy(new_token)
          /\ load_token_from_cache(cache).value = new_token
          /\ auth_token = new_token
    /\ (pc = "returned" /\ folders.called /\ ProbeValid(folders.resp)) => folders.ok
    /\ (prev.outcome = "returned" /\ cache.state # "unreadable") =>
          /\ cache_probe # NoResp
          /\ ProbeValid(cache_probe) =>
                pc = "returned" /\ login_calls = 0 /\ drivers_created = 0

C3_Witness ==
    /\ prev.outcome = "returned" /\ prev.browser
    /\ cache_at_start = File(dump_cache_data(Str(<<"q", "b">>)))
    /\ cache_probe = Status(200)
    /\ pc = "returned"
    /\ login_calls = 0
    /\ folders.called /\ folders.ok

\* C4: when the poll loop of login runs into its timeout (no poll saw both
\* markers, no error element ended it), create_with_auto_auth fails and the
\* cache file is what it was when the call started.
C4_TimeoutLeavesCache ==
    poll_end = "timeout" =>
        /\ cache = cache_at_start
        /\ pc \notin {"login_true", "returned"}
        /\ Done => pc = "raised" /\ escaped # "none"

C4_Witness ==
    /\ poll_end = "timeout"
    /\ seen = NothingSeen
    /\ pc = "raised"
    /\ escaped = "Browser login failed"
    /\ cache = cache_at_start
    /\ cache = File(dump_cache_data(Str(<<"a">>)))

----------------------------------------------------------------------------
(* One OFWMessagesClient and its cache file: every way it takes a token *)

SessionCaches ==
    { Missing,
      File(<<"a">>),
      File(<<"5">>),
      File(<<"{", "K", "q", "q", "}">>),
      File(dump_cache_data(Str(<<"a">>))),
      File(dump_cache_data(Str(<<"b">>))) }

InitSession ==
    /\ cache \in SessionCaches
    /\ ops = <<"init", "init", "init">>
    /\ saved = None
    /\ ret = None
    /\ raised = FALSE
    /\ shrunk = FALSE
    /\ cut = NoCut
    /\ InitClientVars
    /\ InitAuthVars
    /\ InitApiVars
    /\ InitProcessVars

\* a method of the client that ended as r (a record of use_token's shape)
TookToken(op, resp, r) ==
    /\ cache' = r.cache
    /\ is_authenticated' = r.client.is_authenticated
    /\ auth_token' = r.client.auth_token
    /\ authorization' = r.client.authorization
    /\ call' = [op |-> op, token |-> r.token, resp |-> resp, result |-> r.result]
    /\ UNCHANGED <<ops, saved, ret, raised, shrunk, cut>>
    /\ UNCHANGED <<authVars, apiVars, processVars>>

\* client.try_cached_token()
TryCachedToken(resp) ==
    /\ is_authenticated' = try_cached_token(cache, CurrentClient, resp).client.is_authenticated
    /\ auth_token' = try_cached_token(cache, CurrentClient, resp).client.auth_token
    /\ authorization' = try_cached_token(cache, CurrentClient, resp).client.authorization
    /\ call' = [op |-> "try_cached_token", token |-> load_token_from_cache(cache).value,
                resp |-> IF try_cached_token(cache, CurrentClient, resp).probed
                         THEN resp ELSE NoResp,
                result |-> try_cached_token(cache, CurrentClient, resp).result]
    /\ UNCHANGED <<cacheVars, authVars, apiVars, processVars>>

\* client.load_cookies_from_browser(cookies)
LoadCookiesFromBrowser(ls, resp) ==
    TookToken("load_cookies_from_browser", resp,
              load_cookies_from_browser(cache, CurrentClient, ls, resp))

\* client.load_from_browser_client(browser_client, localstorage_data)
LoadFromBrowserClient(data, ls, resp) ==
    TookToken("load_from_browser_client", resp,
              load_from_browser_client(data, cache, CurrentClient, ls, resp))

SessionResponses == {Status(200), Status(401), TransportError}

NextSession ==
    \/ \E resp \in SessionResponses : TryCachedToken(resp)
    \/ \E t \in ServerTokens, resp \in SessionResponses : AuthenticateWithToken(t, resp)
    \/ \E ls \in LsResponses, resp \in SessionResponses : LoadCookiesFromBrowser(ls, resp)
    \/ \E d \in LocalStorageArgs, ls \in LsResponses, resp \in SessionResponses :
          LoadFromBrowserClient(d, ls, resp)

SpecSession == InitSession /\ [][NextSession]_vars

LastWasSuccessfulLogin ==
    /\ call.op \in {"load_cookies_from_browser", "load_from_browser_client"}
    /\ call.result

\* C11: when the most recent authentication operation on the client was a
\* login that returned true (load_cookies_from_browser or
\* load_from_browser_client), the client's auth_token is that login's token
\* and _load_token_from_cache returns that same token, whatever was cached
\* before.
C11_LoginSupersedesCache ==
    LastWasSuccessfulLogin =>
        /\ is_authenticated
        /\ auth_token = call.token
        /\ load_token_from_cache(cache).value = call.token

----------------------------------------------------------------------------
(* The API methods of OFWMessagesClient *)

\* the tag of the GET of v1/messageFolders in requests; page p is tagged p
FoldersRequest == 0

\* the max_pages argument: None, or an integer n >= 0
NoLimit == [given |-> FALSE, n |-> 0]
Limit(n) == [given |-> TRUE, n |-> n]
MaxPagesArgs == {NoLimit} \cup {Limit(n) : n \in 0..MaxPages}

\* the data array of a message-page response: k messages of page p
PageSizes == {0, 1, 2}
page_data(p, k) == [i \in 1..k |-> 10 * p + i]

\* an API method that ended: the exception that left it and the GETs it issued
\* (folder: the folder id of its messages request, <<>> when it issued none)
Ended(error, reqs) == [error |-> error, requests |-> reqs, folder |-> <<>>]

\* the systemFolders of the v1/messageFolders response
system_folders(has_inbox) ==
    IF has_inbox
    THEN <<[folderType |-> "DRAFTS", id |-> 7], [folderType |-> "INBOX", id |-> 5],
           [folderType |-> "SENT", id |-> 8]>>
    ELSE <<[folderType |-> "DRAFTS", id |-> 7], [folderType |-> "SENT", id |-> 8]>>

\* the folder_id argument of the calls that give one
GivenFolder == <<9>>

\* a get_inbox_id that takes the first system folder
first_folder_id(fs) ==
    IF fs = <<>> THEN <<>> ELSE <<Head(fs).id>>

\* get_inbox_id, lines 355-359: the id of the first of the systemFolders whose
\* folderType is INBOX, <<>> for None
RECURSIVE get_inbox_id(_)
get_inbox_id(fs) ==
    IF fs = <<>> THEN <<>>
    ELSE IF Head(fs).folderType = "INBOX" THEN <<Head(fs).id>>
    ELSE get_inbox_id(Tail(fs))

\* get_folders (list_folders and get_inbox_id start with it) with its GETs
folders_call(cl, fresp) ==
    Ended(IF get_folders(cl, fresp) = "ok" THEN "none" ELSE get_folders(cl, fresp),
          IF get_folders(cl, fresp) = "NotAuthenticated" THEN <<>>
          ELSE <<FoldersRequest>>)

\* lines 384-387 of get_messages: the folder to read, r being how get_inbox_id
\* ended when no folder_id was given
resolve_folder(folder_given, has_inbox, r) ==
    IF folder_given THEN [Ended("none", <<>>) EXCEPT !.folder = GivenFolder]
    ELSE IF r.error # "none" THEN r
    ELSE IF get_inbox_id(system_folders(has_inbox)) = <<>>
         THEN Ended("Could not find Inbox folder", r.requests)
    ELSE [r EXCEPT !.folder = get_inbox_id(system_folders(has_inbox))]

\* lines 390-401 of get_messages, after the folder was resolved as f
fetch_page(f, p, mresp) ==
    IF f.error # "none" THEN f
    ELSE [error |-> IF after_get(mresp) = "ok" THEN "none" ELSE after_get(mresp),
          requests |-> Append(f.requests, p), folder |-> f.folder]

\* get_messages that asks for the folder before it looks at is_authenticated
get_messages_unguarded(cl, folder_given, p, fresp, has_inbox, mresp) ==
    fetch_page(resolve_folder(folder_given, has_inbox,
                              Ended("none", <<FoldersRequest>>)), p, mresp)

\* get_messages(folder_id, page=p)
get_messages(cl, folder_given, p, fresp, has_inbox, mresp) ==
    IF ~cl.is_authenticated THEN Ended("NotAuthenticated", <<>>)
    ELSE fetch_page(resolve_folder(folder_given, has_inbox, folders_call(cl, fresp)),
                    p, mresp)

\* get_message(message_id)
get_message(cl, mresp) ==
    IF ~cl.is_authenticated THEN Ended("NotAuthenticated", <<>>)
    ELSE Ended(IF after_get(mresp) = "ok" THEN "none" ELSE after_get(mresp), <<1>>)

\* line 430 of get_all_messages: if max_pages and page > max_pages
limit_reached(max_pages, p) == max_pages.given /\ max_pages.n # 0 /\ p > max_pages.n

\* a loop that puts each new page in front of the earlier ones
extend_in_front(msgs, data) == data \o msgs

\* line 438: all_messages.extend(messages)
extend(msgs, data) == msgs \o data

\* line 445: page += 1
next_page(p) == p + 1

ApiResponses == {Status(200), Status(204), Status(300), Status(401), TransportError}
SimpleOps == {"get_folders", "list_folders", "get_inbox_id", "get_message",
              "get_messages"}

\* how one of the single-request methods ends
simple_call(op, cl, folder_given, fresp, has_inbox, mresp) ==
    CASE op \in {"get_folders", "list_folders"} -> folders_call(cl, fresp)
      [] op = "get_inbox_id" -> folders_call(cl, fresp)
      [] op = "get_message" -> get_message(cl, mresp)
      [] OTHER -> get_messages(cl, folder_given, 1, fresp, has_inbox, mresp)

\* the client is given a token between two API calls
ApiAuthenticate(t, resp) ==
    /\ api_pc # "paging"
    /\ AuthenticateWithToken(t, resp)

ApiEndedAs(op, folder_given, has_inbox, r) ==
    /\ api_pc # "paging"
    /\ api' = [op |-> op, folder_given |-> folder_given, max_pages |-> NoLimit,
               last_page |-> 0, authenticated |-> is_authenticated,
               has_inbox |-> has_inbox, folder |-> r.folder]
    /\ api_pc' = IF r.error = "none" THEN "returned" ELSE "raised"
    /\ api_error' = r.error
    /\ requests' = r.requests
    /\ page' = 0
    /\ all_messages' = <<>>
    /\ served' = <<>>
    /\ UNCHANGED <<cacheVars, clientVars, authVars, processVars>>

\* get_folders, list_folders, get_inbox_id, get_message or get_messages
ApiCall(op, folder_given, fresp, has_inbox, mresp) ==
    ApiEndedAs(op, folder_given, has_inbox,
               simple_call(op, CurrentClient, folder_given, fresp, has_inbox, mresp))

\* get_all_messages(folder_id, max_pages), lines 426-427, on a folder whose
\* pages are flagged last from page last_page on
GetAllMessages(folder_given, max_pages, last_page) ==
    /\ api_pc # "paging"
    /\ api' = [op |-> "get_all_messages", folder_given |-> folder_given,
               max_pages |-> max_pages, last_page |-> last_page,
               authenticated |-> is_authenticated, has_inbox |-> FALSE,
               folder |-> <<>>]
    /\ api_pc' = "paging"
    /\ api_error' = "none"
    /\ requests' = <<>>
    /\ page' = 1
    /\ all_messages' = <<>>
    /\ served' = <<>>
    /\ UNCHANGED <<cacheVars, clientVars, authVars, processVars>>

\* lines 430-432: the limit ends the loop
PagesLimitReached ==
    /\ api_pc = "paging"
    /\ limit_reached(api.max_pages, page)
    /\ api_pc' = "returned"
    /\ UNCHANGED <<api, page, all_messages, requests, served, api_error>>
    /\ UNCHANGED <<cacheVars, clientVars, authVars, processVars>>

PageFetchedAs(r, data) ==
    /\ api_pc = "paging"
    /\ ~limit_reached(api.max_pages, page)
    /\ page <= MaxPages + 1
    /\ requests' = requests \o r.requests
    /\ api_error' = r.error
    /\ IF r.error # "none"
       THEN /\ api_pc' = "raised"
            /\ UNCHANGED <<page, all_messages, served>>
       ELSE /\ all_messages' = extend(all_messages, data)
            /\ served' = Append(served, data)
            /\ IF page >= api.last_page
               THEN api_pc' = "returned" /\ UNCHANGED page
               ELSE api_pc' = "paging" /\ page' = next_page(page)
    /\ UNCHANGED api
    /\ UNCHANGED <<cacheVars, clientVars, authVars, processVars>>

\* lines 434-445: one more page is fetched and added
FetchPage(fresp, has_inbox, mresp, data) ==
    PageFetchedAs(get_messages(CurrentClient, api.folder_given, page, fresp,
                               has_inbox, mresp), data)

NextApi ==
    \/ \E resp \in SessionResponses : ApiAuthenticate(Str(<<"a">>), resp)
    \/ \E op \in SimpleOps, g \in BOOLEAN, fresp \in ApiResponses, i \in BOOLEAN,
          mresp \in ApiResponses : ApiCall(op, g, fresp, i, mresp)
    \/ \E g \in BOOLEAN, m \in MaxPagesArgs, l \in 1..MaxPages : GetAllMessages(g, m, l)
    \/ PagesLimitReached
    \/ \E fresp \in ApiResponses, i \in BOOLEAN, mresp \in ApiResponses,
          k \in PageSizes : FetchPage(fresp, i, mresp, page_data(page, k))

\* a client as __init__ leaves it; its cache file plays no part in the API calls
InitApi ==
    /\ cache = Missing
    /\ ops = <<"init", "init", "init">>
    /\ saved = None
    /\ ret = None
    /\ raised = FALSE
    /\ shrunk = FALSE
    /\ cut = NoCut
    /\ InitClientVars
    /\ InitAuthVars
    /\ InitApiVars
    /\ InitProcessVars

SpecApi == InitApi /\ [][NextApi]_vars

----------------------------------------------------------------------------
(* Properties of the API methods *)

\* the message-page requests among the GETs of the call, in order
page_requests == SelectSeq(requests, LAMBDA r : r # FoldersRequest)

RECURSIVE Flatten(_)
Flatten(ss) == IF ss = <<>> THEN <<>> ELSE Head(ss) \o Flatten(Tail(ss))

C13_AllPagesInOrder ==
    (api.op = "get_all_messages" /\ ~api.max_pages.given /\ api_pc = "returned") =>
        /\ page_requests = [i \in 1..api.last_page |-> i]
        /\ Len(served) = api.last_page
        /\ all_messages = Flatten(served)

C13_Witness ==
    /\ api.op = "get_all_messages"
    /\ api.max_pages = NoLimit
    /\ ~api.folder_given
    /\ api_pc = "returned"
    /\ api.last_page = 3
    /\ page_requests = <<1, 2, 3>>
    /\ all_messages = <<11, 21, 22, 31>>

\* C14: get_all_messages with an integer max_pages >= 0 issues at most
\* max_pages message-page requests.
C14_AtMostMaxPages ==
    (api.op = "get_all_messages" /\ api.max_pages.given) =>
        Len(page_requests) <= api.max_pages.n

----------------------------------------------------------------------------
(* The browser session of create_with_auto_auth *)

----------------------------------------------------------------------------
(* One OFWBrowserClient: any sequence of login and logout calls *)

AfterBrowserCall ==
    {"idle", "login_true", "login_false", "login_raised", "logged_out", "logout_raised"}

\* browser.login(username, password) is called
LoginCalled ==
    /\ pc \in AfterBrowserCall
    /\ login_calls < MaxCalls
    /\ pc' = "need_login"
    /\ submitted' = NoForm
    /\ elapsed' = 0
    /\ login_successful' = FALSE
    /\ poll_end' = "none"
    /\ seen' = NothingSeen
    /\ UNCHANGED <<driver, browser_auth>>
    /\ UNCHANGED <<cacheVars, clientVars, callVars, apiVars, live_drivers, quit_raised,
                   local_storage, requests_client>>

\* browser.login(username, password) called by the program itself
BrowserLogin ==
    /\ LoginCalled
    /\ UNCHANGED hybrid

\* browser.logout()
BrowserLogout(quit_ok) ==
    /\ pc \in AfterBrowserCall
    /\ Logout(quit_ok)
    /\ pc' = IF quit_raises(quit_ok) THEN "logout_raised" ELSE "logged_out"
    /\ UNCHANGED <<submitted, poll_end, seen>>
    /\ UNCHANGED <<cacheVars, clientVars, callVars, apiVars>>

NextBrowser ==
    \/ BrowserLogin
    \/ \E o \in SetupOutcomes, a \in BOOLEAN : LoginSetup(o, a)
    \/ \E o \in FormOutcomes, a \in BOOLEAN : LoginForm(o, a)
    \/ \E obs \in Observations, d \in 0..MaxDelay, a \in BOOLEAN : LoginPoll(obs, d, a)
    \/ LoginPollTimeout
    \/ \E o \in VerifyOutcomes, a \in BOOLEAN : LoginVerify(o, a)
    \/ \E q \in BOOLEAN : BrowserLogout(q)

SpecBrowser == InitApi /\ [][NextBrowser]_vars

\* C16: over any sequence of login and logout calls the browser client has at
\* most one live driver, the one its driver attribute names (login sets one up
\* only when it has none), and once logout has returned the driver is None
\* and is_authenticated is false.
C16_OneDriver ==
    /\ live_drivers <= 1
    /\ live_drivers = (IF driver = "live" THEN 1 ELSE 0)
    /\ pc = "logged_out" => (driver = "none" /\ ~browser_auth)
    /\ driver = "none" => ~browser_auth

C16_Witness ==
    /\ pc = "logged_out"
    /\ login_calls = 2
    /\ drivers_created = 2
    /\ live_drivers = 0
    /\ driver = "none"
    /\ ~browser_auth

C18_AsClaimed ==
    seen.eligible <=> poll_end = "error"

\* C18: an error element ends the login with failure exactly when a poll saw
\* it on the login URL, more than 5 s after the poll began, without both
\* markers, with text in its first element, and the dumps of that poll were
\* written; in every other case the polling goes on.
C18_ErrorEndsLogin ==
    /\ seen.ending <=> poll_end = "error"
    /\ seen.ending => seen.eligible
    /\ poll_end = "error" =>
          /\ ~login_successful
          /\ pc \notin {"need_login", "login_form", "login_poll", "login_verify",
                        "login_true", "login_raised"}

C18_Witness ==
    /\ pc = "login_false"
    /\ poll_end = "error"
    /\ seen.ending
    /\ ~seen.both

----------------------------------------------------------------------------
(* Termination of login *)

LoginEnded == {"login_true", "login_false", "login_raised"}

\* a statement of a login call that is under way
LoginStep ==
    \/ \E o \in SetupOutcomes, a \in BOOLEAN : LoginSetup(o, a)
    \/ \E o \in FormOutcomes, a \in BOOLEAN : LoginForm(o, a)
    \/ \E obs \in Observations, d \in 0..MaxDelay, a \in BOOLEAN : LoginPoll(obs, d, a)
    \/ LoginPollTimeout
    \/ \E o \in VerifyOutcomes, a \in BOOLEAN : LoginVerify(o, a)

\* login is one sequential call: once it is called its thread goes on to the
\* next statement, and each webdriver request and time.sleep returns
\* (implicitly_wait(10), set_page_load_timeout(30), WebDriverWait timeouts)
SpecBrowserFair == SpecBrowser /\ WF_vars(LoginStep)

----------------------------------------------------------------------------
(* The form step of login *)

\* C20: once login has found the username and the password field it submits
\* the form: by a click on the submit control when a selector found one, by
\* the script document.querySelector('form').submit() when none did (filling
\* in and submitting themselves not raising).
C20_FormAlwaysSubmitted ==
    /\ (submitted.fields /\ submitted.control /\ ~submitted.fault) =>
            submitted.how = "click"
    /\ (submitted.fields /\ ~submitted.control /\ ~submitted.fault) =>
            submitted.how = "script"

----------------------------------------------------------------------------
(* The debug artifacts of login *)

\* C22: the debug artifacts have no effect on login: each step of a login
\* call ends as it does when every screenshot, page-source and cookie write
\* succeeds, whatever became of the writes of that step.
C22_NoArtifactEffect ==
    [][/\ \A o \in SetupOutcomes, a \in BOOLEAN :
            LoginSetup(o, a) =>
                pc' = IF o = "ok" THEN "login_form" ELSE login_handler(driver', TRUE)
       /\ \A o \in FormOutcomes, a \in BOOLEAN :
            LoginForm(o, a) =>
                pc' = IF o = "submitted" THEN "login_poll"
                      ELSE login_handler(driver, TRUE)
       /\ \A obs \in Observations, d \in 0..MaxDelay, a \in BOOLEAN :
            (LoginPoll(obs, d, a) /\ poll_decision(obs, elapsed + d) = "error") =>
                (pc' = "login_false" /\ poll_end' = "error")
       /\ \A o \in VerifyOutcomes, a \in BOOLEAN :
            LoginVerify(o, a) =>
                /\ pc' = IF o = "exception" THEN login_handler(driver, TRUE)
                         ELSE login_verdict(login_successful)
                /\ browser_auth' = (browser_auth \/ (o # "exception" /\ login_successful))
      ]_vars

----------------------------------------------------------------------------
(* OFWBrowserClient.get_local_storage *)

\* a value json.loads gives that is neither str, None, number nor list
Dict == [kind |-> "dict", val |-> <<>>]

\* the 'auth' items of the browser's localStorage: short strings, the JSON
\* encodings of strings, encodings of encodings, and other JSON texts
StoredItems ==
    {NoItem}
        \cup {Item(s) : s \in SeqsUpTo(MaxLen + 1)}
        \cup {Item(encode_value(Str(s))) : s \in Strings}
        \cup {Item(encode_value(Str(encode_value(Str(s))))) : s \in SeqsUpTo(1)}
        \cup {Item(<<"5">>), Item(<<"n">>), Item(<<"{", "}">>), Item(<<"w", "q", "a", "q">>)}

\* a get_local_storage that returns the stored strings as they are
cleaned_value_kept(s, doc) == Str(s)

\* lines 320-329: cleaned_storage[key] for the stored string s, doc being how
\* json.loads(s) ended
cleaned_value(s, doc) ==
    IF ~doc.ok THEN Str(s)
    ELSE IF doc.kind = "object" THEN Dict
    ELSE scan_scalar(s, SkipWs(s, 1)).value

\* get_local_storage, lines 305-347; ok: neither execute_script nor the write
\* of localstorage_data.json raised
get_local_storage(drv, authenticated, item, ok) ==
    IF drv = "live" /\ authenticated /\ ok /\ item.has
    THEN LocalStorageData(cleaned_value(item.value, json_load(item.value)))
    ELSE NoLocalStorageData

\* browser.get_local_storage()
GetLocalStorage(item, ok) ==
    /\ pc \in AfterBrowserCall
    /\ local_storage' = [item |-> item,
                         returned |-> get_local_storage(driver, browser_auth, item, ok)]
    /\ UNCHANGED <<cacheVars, clientVars, authVars, apiVars, live_drivers, quit_raised,
                   requests_client, hybrid>>

\* a poll that sees both markers
BothMarkers ==
    [exc |-> FALSE, greeting |-> TRUE, notifications |-> TRUE, on_login |-> FALSE,
     error |-> FALSE, text |-> FALSE]

\* a browser client that logs in without incident and is asked for its
\* localStorage, before or after
NextStorage ==
    \/ BrowserLogin
    \/ LoginSetup("ok", TRUE)
    \/ LoginForm("submitted", TRUE)
    \/ LoginPoll(BothMarkers, 0, TRUE)
    \/ LoginVerify("ok", TRUE)
    \/ \E item \in StoredItems, ok \in BOOLEAN : GetLocalStorage(item, ok)

SpecStorage == InitApi /\ [][NextStorage]_vars

\* the authenticated browser returned its 'auth' item
StorageReturned == local_storage.item.has /\ local_storage.returned.has_auth

\* C23: get_local_storage unwraps one level of JSON encoding: a stored value
\* that is the JSON encoding of a string s is returned as s (also when s is
\* itself a JSON text), and a stored value that is not valid JSON is returned
\* unchanged.
C23_UnwrapsOneLevel ==
    StorageReturned =>
        /\ \A s \in SeqsUpTo(MaxLen + 1) \cup {encode_value(Str(t)) : t \in SeqsUpTo(1)} :
              local_storage.item.value = encode_value(Str(s)) =>
                  local_storage.returned.auth = Str(s)
        /\ ~json_load(local_storage.item.value).ok =>
              local_storage.returned.auth = Str(local_storage.item.value)

C23_Witness ==
    /\ StorageReturned
    /\ local_storage.item.value = <<"q", "b", "q", "a", "b", "q", "q">>
    /\ local_storage.returned.auth = Str(<<"q", "a", "q">>)

----------------------------------------------------------------------------
(* The API methods and the response status *)

\* C24: get_folders, get_messages and get_message return only on a response
\* with a status 200-299; on any other status they raise the HTTP error.
C24_OnlySuccessReturnsData ==
    [][\A op \in {"get_folders", "get_messages", "get_message"},
          fresp \in ApiResponses, mresp \in ApiResponses :
          (/\ ApiCall(op, TRUE, fresp, TRUE, mresp)
           /\ is_authenticated
           /\ ~(IF op = "get_folders" THEN fresp ELSE mresp).exc
           /\ (IF op = "get_folders" THEN fresp ELSE mresp).status \notin 200..299)
              => (api_pc' = "raised" /\ api_error' = "HTTPError")]_vars

----------------------------------------------------------------------------
(* The records written to the cache file *)

\* the cache file holds a record {token: s} with s a non-empty string
HoldsTokenString(c) ==
    /\ c.state = "file"
    /\ json_load(c.content).ok
    /\ json_load(c.content).kind = "object"
    /\ json_load(c.content).has_token
    /\ json_load(c.content).token.kind = "str"
    /\ json_load(c.content).token.val # <<>>

\* C25: whenever a method of the messages client changes the cache file, the
\* file then holds a record {token: s} with s a non-empty string.
C25_OnlyTokenStringsCached ==
    [][cache' # cache => HoldsTokenString(cache')]_vars

----------------------------------------------------------------------------
(* OFWClient.login, the requests transport *)

\* a GET that neither raised nor ended in a status raise_for_status rejects
get_ok(resp) == ~resp.exc /\ ~(resp.status >= 400 /\ resp.status < 600)

\* the outcome of a login call: result, whether line 240 set the flag, and the
\* requests sent
LoginOutcome(result, authenticated, sent) ==
    [result |-> result, authenticated |-> authenticated, sent |-> sent]

\* lines 196-268: the POST and the check of the page it ended on; an error
\* div is looked at before the markers, and after the flag is set the
\* localstorage.json endpoint is fetched once more
check_login_response(post, again, sent) ==
    IF post.exc THEN LoginOutcome("false", FALSE, sent)
    ELSE IF post.error THEN LoginOutcome("false", FALSE, sent)
    ELSE IF post.greeting /\ post.notifications
         THEN LoginOutcome(IF again.exc THEN "false" ELSE "true", TRUE,
                           Append(sent, "localstorage"))
    ELSE LoginOutcome("false", FALSE, sent)

\* an _initialize_session that reports success whatever the fetch did
initialize_session_true(init) == TRUE

\* _initialize_session, lines 37-66: False when the GET or raise_for_status raised
initialize_session(init) == get_ok(init)

\* OFWClient.login, lines 169-280: _initialize_session, _get_login_page, the
\* POST; every exception ends the call with return False
requests_login(init, pg, post, again) ==
    IF ~initialize_session(init) THEN LoginOutcome("false", FALSE, <<"localstorage">>)
    ELSE IF ~get_ok(pg)
         THEN LoginOutcome("false", FALSE, <<"localstorage", "login_page">>)
    ELSE check_login_response(post, again, <<"localstorage", "login_page", "post">>)

\* the client after a login call that ended as r
requests_client_after(cl, r, answers) ==
    [is_authenticated |-> cl.is_authenticated \/ r.authenticated,
     result |-> r.result, sent |-> r.sent, answers |-> answers]

RequestsResponses == {Status(200), Status(500), TransportError}

\* the pages the POST may end on (exc: the POST raised)
PostPages == {o \in Observations : ~o.on_login /\ ~o.text}

\* client.login(username, password)
RequestsLogin(init, pg, post, again) ==
    /\ requests_client' =
          requests_client_after(requests_client, requests_login(init, pg, post, again),
                                [init |-> init, page |-> pg, post |-> post,
                                 again |-> again])
    /\ UNCHANGED <<cacheVars, clientVars, authVars, apiVars, live_drivers, quit_raised,
                   local_storage, hybrid>>

\* client.logout(), lines 296-308
RequestsLogout ==
    /\ requests_client' = [requests_client EXCEPT !.is_authenticated = FALSE]
    /\ UNCHANGED <<cacheVars, clientVars, authVars, apiVars, live_drivers, quit_raised,
                   local_storage, hybrid>>

NextRequests ==
    \/ \E init \in RequestsResponses, pg \in RequestsResponses, post \in PostPages,
          again \in {Status(200), TransportError} : RequestsLogin(init, pg, post, again)
    \/ RequestsLogout

SpecRequests == InitApi /\ [][NextRequests]_vars

\* C26: a login call of OFWClient sends its requests in the order
\* localstorage.json, login page, credential POST, and when the first fetch
\* fails it returns False having sent nothing else.
C26_SessionInitFirst ==
    requests_client.result # "none" =>
        /\ \E n \in 1..4 :
              requests_client.sent =
                  SubSeq(<<"localstorage", "login_page", "post", "localstorage">>, 1, n)
        /\ ~get_ok(requests_client.answers.init) =>
              /\ requests_client.result = "false"
              /\ requests_client.sent = <<"localstorage">>

C26_Witness ==
    /\ requests_client.result = "false"
    /\ requests_client.answers.init = Status(500)
    /\ requests_client.answers.page = Status(200)
    /\ requests_client.answers.post.greeting
    /\ requests_client.answers.post.notifications
    /\ ~requests_client.answers.post.error
    /\ requests_client.sent = <<"localstorage">>

----------------------------------------------------------------------------
(* The folder of get_messages *)

\* C27: get_messages called without a folder id asks for the messages of the
\* system folder whose folderType is INBOX, and when the listing has no such
\* folder it raises without a messages request.
C27_InboxByDefault ==
    (api.op = "get_messages" /\ api.authenticated /\ ~api.folder_given) =>
        /\ page_requests # <<>> =>
              /\ api.has_inbox
              /\ \E k \in 1..Len(system_folders(TRUE)) :
                    /\ system_folders(TRUE)[k].folderType = "INBOX"
                    /\ api.folder = <<system_folders(TRUE)[k].id>>
        /\ ~api.has_inbox =>
              /\ page_requests = <<>>
              /\ api_pc = "raised"
              /\ api_error \in {"Could not find Inbox folder", "HTTPError",
                                "ConnectionError", "JSONDecodeError"}

C27_Witness ==
    /\ api.op = "get_messages"
    /\ api.authenticated
    /\ ~api.folder_given
    /\ api.has_inbox
    /\ api_pc = "returned"
    /\ requests = <<FoldersRequest, 1>>
    /\ api.folder = <<5>>

----------------------------------------------------------------------------
(* OFWHybridClient *)

Modes == {"auto", "requests", "browser"}

\* _should_use_browser, lines 70-79
should_use_browser == TRUE

\* a choice of transport that leaves force_browser out
use_browser_unforced(mode, force_browser) ==
    mode = "browser" \/ (mode = "auto" /\ should_use_browser)

\* login, lines 57-61
use_browser(mode, force_browser) ==
    mode = "browser" \/ force_browser \/ (mode = "auto" /\ should_use_browser)

\* OFWHybridClient(mode)
HybridNew(mode) ==
    /\ hybrid = NoHybrid
    /\ hybrid' = [NoHybrid EXCEPT !.mode = mode]
    /\ UNCHANGED <<cacheVars, clientVars, authVars, apiVars, live_drivers, quit_raised,
                   local_storage, requests_client>>

\* a login that sets the flag and leaves _current_mode as it was
hybrid_after_unmoded(h, t, success) ==
    [h EXCEPT !.is_authenticated = h.is_authenticated \/ success,
              !.result = IF success THEN "true" ELSE "false"]

\* the hybrid client when the login of transport t has returned success
hybrid_after(h, t, success) ==
    [h EXCEPT !.is_authenticated = h.is_authenticated \/ success,
              !.current_mode = IF success THEN t ELSE h.current_mode,
              !.result = IF success THEN "true" ELSE "false"]

\* hybrid.login(username, password, force_browser) taking the requests
\* transport, lines 64-68 and 81-91
HybridLoginWithRequests(force_browser, init, pg, post, again) ==
    /\ hybrid.mode # "none"
    /\ hybrid.result # "pending"
    /\ ~use_browser(hybrid.mode, force_browser)
    /\ requests_client' =
          requests_client_after(requests_client, requests_login(init, pg, post, again),
                                [init |-> init, page |-> pg, post |-> post,
                                 again |-> again])
    /\ hybrid' = hybrid_after([hybrid EXCEPT !.requests_client = TRUE,
                                             !.force_browser = force_browser,
                                             !.used = <<"requests">>],
                              "requests",
                              requests_login(init, pg, post, again).result = "true")
    /\ UNCHANGED <<cacheVars, clientVars, authVars, apiVars, live_drivers, quit_raised,
                   local_storage>>

\* hybrid.login(username, password, force_browser) taking the browser
\* transport, lines 61-63 and 93-100: the browser client's login is called
HybridLoginWithBrowser(force_browser) ==
    /\ hybrid.mode # "none"
    /\ hybrid.result # "pending"
    /\ use_browser(hybrid.mode, force_browser)
    /\ LoginCalled
    /\ hybrid' = [hybrid EXCEPT !.browser_client = TRUE,
                                !.force_browser = force_browser,
                                !.used = <<"browser">>,
                                !.result = "pending"]

\* lines 100-106: the browser client's login has ended
HybridLoginReturns ==
    /\ hybrid.result = "pending"
    /\ pc \in LoginEnded
    /\ hybrid' = IF pc = "login_raised" THEN [hybrid EXCEPT !.result = "raised"]
                 ELSE hybrid_after(hybrid, "browser", pc = "login_true")
    /\ UNCHANGED <<cacheVars, clientVars, authVars, apiVars, live_drivers, quit_raised,
                   local_storage, requests_client>>

\* hybrid.logout(), lines 166-175: the logout of each client that exists,
\* then the reset; an error of driver.quit() leaves before the reset
HybridLogout(quit_ok) ==
    /\ hybrid.mode # "none"
    /\ hybrid.result # "pending"
    /\ requests_client' =
          IF hybrid.requests_client
          THEN [requests_client EXCEPT !.is_authenticated = FALSE]
          ELSE requests_client
    /\ IF hybrid.browser_client
       THEN /\ LoggedOut(quit_ok)
            /\ pc' = IF quit_raises(quit_ok) THEN "logout_raised" ELSE "logged_out"
       ELSE UNCHANGED <<driver, browser_auth, elapsed, login_successful, live_drivers,
                        quit_raised, pc>>
    /\ hybrid' =
          IF hybrid.browser_client /\ quit_raises(quit_ok)
          THEN [hybrid EXCEPT !.result = "logout_raised"]
          ELSE [hybrid EXCEPT !.is_authenticated = FALSE, !.current_mode = "none",
                              !.result = "logged_out"]
    /\ UNCHANGED <<submitted, poll_end, seen>>
    /\ UNCHANGED <<cacheVars, clientVars, callVars, apiVars, local_storage>>

\* the page after the POST without markers
NoMarkers ==
    [exc |-> FALSE, greeting |-> FALSE, notifications |-> FALSE, on_login |-> FALSE,
     error |-> FALSE, text |-> FALSE]

NextHybrid ==
    \/ \E m \in Modes : HybridNew(m)
    \/ \E f \in BOOLEAN, init \in {Status(200), TransportError},
          post \in {BothMarkers, NoMarkers}, again \in {Status(200), TransportError} :
          HybridLoginWithRequests(f, init, Status(200), post, again)
    \/ \E f \in BOOLEAN : HybridLoginWithBrowser(f)
    \/ \E o \in {"ok", "chrome_fail"}, a \in BOOLEAN : LoginSetup(o, a)
    \/ \E o \in {"submitted", "no_username"} : LoginForm(o, TRUE)
    \/ \E obs \in {BothMarkers, NoMarkers} : LoginPoll(obs, MaxDelay, TRUE)
    \/ LoginPollTimeout
    \/ LoginVerify("ok", TRUE)
    \/ HybridLoginReturns
    \/ \E q \in BOOLEAN : HybridLogout(q)

SpecHybrid == InitApi /\ [][NextHybrid]_vars

\* C28: a login call of the hybrid client invokes exactly one transport: the
\* browser when mode is 'browser', force_browser is true or mode is 'auto',
\* the requests client when mode is 'requests' and force_browser is false;
\* a transport that no call chose has never been used.
C28_OneTransport ==
    /\ hybrid.result \in {"pending", "true", "false", "raised"} =>
          /\ Len(hybrid.used) = 1
          /\ hybrid.used = <<"browser">> <=>
                (hybrid.mode = "browser" \/ hybrid.force_browser \/ hybrid.mode = "auto")
          /\ hybrid.used = <<"requests">> <=>
                (hybrid.mode = "requests" /\ ~hybrid.force_browser)
    /\ (hybrid.mode = "requests" /\ ~hybrid.browser_client) =>
          (pc = "idle" /\ login_calls = 0 /\ drivers_created = 0)
    /\ hybrid.mode \in {"auto", "browser"} =>
          (~hybrid.requests_client /\ requests_client = NewRequestsClient)
    /\ hybrid.browser_client <=> pc # "idle"
    /\ hybrid.requests_client <=> requests_client # NewRequestsClient

C28_Witness ==
    /\ hybrid.mode = "requests"
    /\ hybrid.force_browser
    /\ hybrid.used = <<"browser">>
    /\ hybrid.result = "true"
    /\ hybrid.requests_client
    /\ hybrid.current_mode = "browser"

----------------------------------------------------------------------------
(* The cache file and the methods that report failure *)

\* C29: a call of load_cookies_from_browser or load_from_browser_client that
\* returns false, and a create_with_auto_auth that raises, leave the content
\* of the cache file as it was.
C29_FailureLeavesCache ==
    [][(\/ call'.op \in {"load_cookies_from_browser", "load_from_browser_client"}
             /\ ~call'.result
        \/ pc' = "raised")
       => cache' = cache]_vars

----------------------------------------------------------------------------
(* The is_authenticated flag of the two login transports *)

\* C30: when a login call of OFWBrowserClient or of OFWClient returns, the
\* client's is_authenticated flag is true if the call returned true and
\* false if it returned false, whatever calls of login and logout came
\* before.
C30_FlagMatchesResult ==
    [][/\ (pc' = "login_false" /\ pc # "login_false") => ~browser_auth'
       /\ (pc' = "login_true" /\ pc # "login_true") => browser_auth'
       /\ \A init, pg, again \in RequestsResponses, post \in PostPages :
             RequestsLogin(init, pg, post, again) =>
                 (requests_client'.is_authenticated <=> requests_client'.result = "true")
      ]_vars

----------------------------------------------------------------------------
(* The authentication state of OFWMessagesClient *)

\* the text an f-string puts for a Python value: the string itself, 'None'
\* for None and the digits of a number
format_value(v) ==
    CASE v.kind = "str" -> v.val
      [] v.kind = "none" -> <<"N", "o", "n", "e">>
      [] v.kind = "num" -> <<"5">>
      [] OTHER -> <<"[", "]">>

\* _set_auth_header(token): the Authorization header it stores
set_auth_header(token) == <<"Bearer ">> \o format_value(token)

\* the text 'Bearer ' followed by the string s
BearerFollowedBy(s) == <<"Bearer ">> \o s

\* C31: whenever is_authenticated is true, auth_token is not None and the
\* Authorization header is 'Bearer ' followed by auth_token; after
\* authenticate_with_token(t) the client is authenticated exactly when the
\* probe made with t answered 200, whatever the client's state was before.
C31_AuthenticatedHasToken ==
    /\ is_authenticated =>
          /\ auth_token # None
          /\ set_auth_header(authorization) = BearerFollowedBy(format_value(auth_token))
    /\ call.op = "authenticate_with_token" =>
          (is_authenticated <=> ProbeValid(call.resp))

----------------------------------------------------------------------------
(* The two login transports on the same landing page *)

\* the page a poll of the browser sees shows what the page the POST of the
\* requests client ended on shows
SamePage(obs, post) ==
    /\ ~obs.exc
    /\ obs.greeting = post.greeting
    /\ obs.notifications = post.notifications
    /\ obs.error = post.error

\* a program that logs in with the requests client and then with the browser
\* client, the server answering both with the same page
NextTransports ==
    \/ \E post \in PostPages :
          /\ pc \in AfterBrowserCall
          /\ ~post.exc
          /\ RequestsLogin(Status(200), Status(200), post, Status(200))
    \/ /\ requests_client.result # "none"
       /\ BrowserLogin
    \/ LoginSetup("ok", TRUE)
    \/ LoginForm("submitted", TRUE)
    \/ \E obs \in Observations, d \in 0..MaxDelay :
          /\ pc = "login_poll"
          /\ SamePage(obs, requests_client.answers.post)
          /\ LoginPoll(obs, d, TRUE)
    \/ LoginPollTimeout
    \/ LoginVerify("ok", TRUE)

SpecTransports == InitApi /\ [][NextTransports]_vars

\* C32: when the browser login ends on the page the requests login ended on,
\* with the same greeting marker, notifications marker and error element, the
\* two logins both return true or both return false.
C32_SameVerdict ==
    [][(pc' \in {"login_true", "login_false"} /\ pc \notin {"login_true", "login_false"})
       => (pc' = "login_true" <=> requests_client'.result = "true")]_vars

----------------------------------------------------------------------------
(* The authentication state of OFWHybridClient *)

\* _current_mode names a transport whose client exists and is authenticated
CurrentTransportAuthenticated ==
    \/ /\ hybrid.current_mode = "requests"
       /\ hybrid.requests_client
       /\ requests_client.is_authenticated
    \/ /\ hybrid.current_mode = "browser"
       /\ hybrid.browser_client
       /\ browser_auth

----------------------------------------------------------------------------
(* try_cached_token and the cache file *)

\* the document holds no token: it is no JSON text, no object, an object
\* without the member 'token', or one whose token is null or empty
NoTokenIn(doc) ==
    \/ ~doc.ok
    \/ doc.kind # "object"
    \/ ~doc.has_token
    \/ doc.token \in {None, Str(<<>>), EmptyList}

\* the cache file is missing, malformed or holds no token
CacheHoldsNoToken(c) ==
    \/ c.state = "missing"
    \/ c.state = "file" /\ NoTokenIn(json_load(c.content))

\* C34: try_cached_token never changes the cache file, and when the file is
\* missing, malformed or holds no token it returns False without a probe
\* request and leaves is_authenticated, auth_token and the Authorization
\* header as they were.
C34_NoTokenNoProbe ==
    [][\A resp \in SessionResponses :
          TryCachedToken(resp) =>
              /\ cache' = cache
              /\ CacheHoldsNoToken(cache) =>
                    /\ ~call'.result
                    /\ call'.resp = NoResp
                    /\ is_authenticated' = is_authenticated
                    /\ auth_token' = auth_token
                    /\ authorization' = authorization]_vars

C34_Witness ==
    /\ call.op = "try_cached_token"
    /\ ~call.result
    /\ call.resp = NoResp
    /\ cache = File(<<"5">>)
    /\ is_authenticated
    /\ auth_token = Str(<<"a">>)

====
